---- MODULE Spec2Model ----
(***************************************************************************)
(* UbuntuImageFetcher (ubuntu_image_fetcher.py): a sequential downloader   *)
(* that probes a URL with HEAD, validates the headers, GETs the body,      *)
(* deduplicates by MD5 digest, resolves a collision-free file name, writes *)
(* the file and records the digest in .image_hashes.txt.                   *)
(*                                                                         *)
(* Text and bytes are sequences of items.  An item is a string standing   *)
(* for a run of characters ("photo", ".", "jpg") or of bytes ("a", "\n");  *)
(* a Python str or bytes value is the concatenation of its items.          *)
(* The target directory is one name space: a function from the names of   *)
(* the entries it holds to their data.                                     *)
(***************************************************************************)
EXTENDS Integers, Sequences, FiniteSets, TLC

\* ----------------------------------------------------------------- bounds
MaxFetches == 2
MaxSessions == 2
MaxBatch == 2

\* ------------------------------------------------------ program constants
SizeLimitMB == 50
BytesPerMB == 1048576
PauseSeconds == 2

HashFileName == <<".", "image_hashes", ".", "txt">>
DefaultContentType == <<"image", "/", "jpeg">>
DefaultExtension == <<".", "jpg">>
ImagePrefix == <<"image", "/">>

\* ------------------------------------------------------------ text helpers
StartsWith(s, prefix) ==
    /\ Len(s) >= Len(prefix)
    /\ SubSeq(s, 1, Len(prefix)) = prefix

\* str.lower(), item by item
LowerItem(t) ==
    CASE t = "IMAGE" -> "image"
      [] t = "Image" -> "image"
      [] t = "PNG" -> "png"
      [] t = "TEXT" -> "text"
      [] OTHER -> t

Lower(s) == [i \in 1..Len(s) |-> LowerItem(s[i])]

Whitespace == {"\n", " "}

RECURSIVE LStrip(_)
LStrip(s) ==
    IF s # <<>> /\ Head(s) \in Whitespace THEN LStrip(Tail(s)) ELSE s

RECURSIVE RStrip(_)
RStrip(s) ==
    IF s # <<>> /\ s[Len(s)] \in Whitespace
    THEN RStrip(SubSeq(s, 1, Len(s) - 1))
    ELSE s

\* str.strip()
Strip(s) == RStrip(LStrip(s))

\* Iterating a text file: the lines, each with its terminator, the last one
\* without when the data does not end in a newline.
RECURSIVE FileLines(_, _)
FileLines(data, cur) ==
    IF data = <<>>
    THEN IF cur = <<>> THEN {} ELSE {cur}
    ELSE IF Head(data) = "\n"
         THEN {Append(cur, "\n")} \cup FileLines(Tail(data), <<>>)
         ELSE FileLines(Tail(data), Append(cur, Head(data)))

\* dict.get(key, default) on response headers
HeaderGet(headers, key, default) ==
    IF key \in DOMAIN headers THEN headers[key] ELSE default

\* ----------------------------------------------------------- int() parsing
Digits == {"0", "1", "2", "3", "4", "5", "6", "7", "8", "9"}

DigitValue(d) ==
    CASE d = "0" -> 0 [] d = "1" -> 1 [] d = "2" -> 2 [] d = "3" -> 3
      [] d = "4" -> 4 [] d = "5" -> 5 [] d = "6" -> 6 [] d = "7" -> 7
      [] d = "8" -> 8 [] d = "9" -> 9

RECURSIVE DigitsValue(_)
DigitsValue(s) ==
    IF s = <<>> THEN 0
    ELSE 10 * DigitsValue(SubSeq(s, 1, Len(s) - 1)) + DigitValue(s[Len(s)])

\* int(text): surrounding whitespace and one sign are accepted; anything else
\* raises ValueError.
IntBody(text) ==
    LET t == Strip(text)
    IN IF t # <<>> /\ Head(t) \in {"+", "-"} THEN Tail(t) ELSE t

IntParses(text) ==
    /\ IntBody(text) # <<>>
    /\ \A i \in 1..Len(IntBody(text)) : IntBody(text)[i] \in Digits

IntValue(text) ==
    LET t == Strip(text)
        v == DigitsValue(IntBody(text))
    IN IF Head(t) = "-" THEN 0 - v ELSE v

\* ------------------------------------------------------------- hash store
\* hashlib.md5(content).hexdigest(): one item of text, different for
\* different contents (collision resistance of the digest is assumed).
Md5HexDigest(content) == "md5" \o ToString(content)

_get_file_hash(content) == <<Md5HexDigest(content)>>

\* set(line.strip() for line in f)
ReadHashLines(data) == {Strip(l) : l \in FileLines(data, <<>>)}

\* f.write(f"{file_hash}\n") on a file opened for append
AppendHashLine(data, file_hash) == data \o file_hash \o <<"\n">>

\* -------------------------------------------------------- header validator
\* Variant: the ceiling test written >= instead of >
ValidateRejectsAtLimit(headers) ==
    /\ StartsWith(Lower(HeaderGet(headers, "Content-Type", <<>>)), ImagePrefix)
    /\ ~ /\ "Content-Length" \in DOMAIN headers
         /\ headers["Content-Length"] # <<>>
         /\ IntParses(headers["Content-Length"])
         /\ IntValue(headers["Content-Length"]) >= SizeLimitMB * BytesPerMB

\* Variant: the validation result is ignored
AcceptAnyHeaders(headers) == TRUE

\* _validate_image_headers: TRUE iff it returns (True, ...)
_validate_image_headers(headers) ==
    LET content_type == Lower(HeaderGet(headers, "Content-Type", <<>>))
        has_length == "Content-Length" \in DOMAIN headers
        content_length == HeaderGet(headers, "Content-Length", <<>>)
    IN IF ~StartsWith(content_type, ImagePrefix)
       THEN FALSE
       ELSE IF has_length /\ content_length # <<>> /\ IntParses(content_length)
                 /\ IntValue(content_length) > SizeLimitMB * BytesPerMB
            THEN FALSE
            ELSE TRUE

\* -------------------------------------------------------- filename resolver
\* urllib.parse.unquote on the path, item by item
UnquoteItem(t) ==
    CASE t = "%20" -> " "
      [] t = "%21" -> "!"
      [] OTHER -> t

Unquote(s) == [i \in 1..Len(s) |-> UnquoteItem(s[i])]

\* os.path.basename of a path given as its segments ("/" separated)
Basename(path) == IF path = <<>> THEN <<>> ELSE path[Len(path)]

\* mimetypes.guess_extension; <<>> stands for None
GuessExtension(content_type) ==
    CASE Lower(content_type) = <<"image", "/", "png">> -> <<".", "png">>
      [] Lower(content_type) = <<"image", "/", "jpeg">> -> <<".", "jpg">>
      [] OTHER -> <<>>

UnsafeItems == {" ", "!", "%20", "%21"}

IsSafeItem(t) == t \notin UnsafeItems

HasDot(name) == \E i \in 1..Len(name) : name[i] = "."

_generate_filename(url, content_type, timestamp) ==
    LET filename == Basename([i \in 1..Len(url) |-> Unquote(url[i])])
        extension ==
            IF GuessExtension(content_type) = <<>>
            THEN DefaultExtension
            ELSE GuessExtension(content_type)
        chosen ==
            IF filename = <<>> \/ ~HasDot(filename)
            THEN <<"ubuntu_image_", ToString(timestamp)>> \o extension
            ELSE filename
    IN SelectSeq(chosen, IsSafeItem)

\* pathlib: PurePath.suffix and PurePath.stem of a final path component
LastDot(name) ==
    IF HasDot(name)
    THEN CHOOSE i \in 1..Len(name) :
             name[i] = "." /\ \A j \in (i + 1)..Len(name) : name[j] # "."
    ELSE 0

PathSuffix(name) ==
    LET i == LastDot(name)
    IN IF 1 < i /\ i < Len(name) THEN SubSeq(name, i, Len(name)) ELSE <<>>

PathStem(name) == SubSeq(name, 1, Len(name) - Len(PathSuffix(name)))

\* f"{stem}_{counter}{suffix}"
ConflictName(original, counter) ==
    PathStem(original) \o <<"_", ToString(counter)>> \o PathSuffix(original)

\* the while filepath.exists() loop of fetch_image
RECURSIVE ResolveConflicts(_, _, _, _)
ResolveConflicts(existing, original, filepath, counter) ==
    IF filepath \notin existing
    THEN filepath
    ELSE ResolveConflicts(existing, original,
                          ConflictName(original, counter), counter + 1)

\* ------------------------------------------------------------ input sets
\* URLs, each given by the segments of its path
UrlPhoto == << <<"photo", ".", "jpg">> >>
UrlPhotoEscaped == << <<"pics">>, <<"photo", "%20", ".", "jpg">> >>
UrlNoName == << >>
UrlHashFile == << HashFileName >>
Urls == {UrlPhoto, UrlPhotoEscaped, UrlNoName, UrlHashFile}

\* bodies served by GET
Contents == {<<"a">>, <<"b", "\n">>}

TypePng == <<"image", "/", "png">>
TypePngUpper == <<"IMAGE", "/", "PNG">>
TypeHtml == <<"text", "/", "html">>

Text51MB == <<"5", "3", "4", "7", "7", "3", "7", "6">>

\* headers answered to the HEAD probe
HeadHeaders ==
    { [h \in {"Content-Type"} |-> TypePng],
      [h \in {"Content-Type"} |-> TypePngUpper],
      [h \in {"Content-Type"} |-> TypeHtml],
      [h \in {"Content-Type", "Content-Length"} |->
          IF h = "Content-Type" THEN TypePng ELSE Text51MB] }

\* headers answered to the GET request
GetHeaders ==
    { [h \in {"Content-Type"} |-> TypePng],
      [h \in {} |-> <<>>] }

\* int(time.time()) at the moment a name is synthesized
Timestamps == {1700000000, 1700000001}

RequestErrors == {"Timeout", "ConnectionError", "HTTPError"}

\* ------------------------------------------------------------------ state
VARIABLES
    files,              \* download_dir: entry name -> data
    downloaded_hashes,  \* self.downloaded_hashes
    pc,                 \* position of the single thread of control
    session,            \* number of the running process
    load_status,        \* how _load_existing_hashes ended in this session
    caller,             \* who called fetch_image: "single", "batch", "none"
    url,                \* fetch_image: url
    head_response,      \* fetch_image: headers of head_response
    response,           \* fetch_image: [content, headers] of response
    filepath,           \* fetch_image: filepath after conflict handling
    success,            \* fetch_image: returned value
    total,              \* fetch_multiple_images: len(urls)
    index,              \* fetch_multiple_images: i
    results,            \* fetch_multiple_images: results
    events,             \* history: requests and writes of the current fetch
    batch_log,          \* history: fetches and pauses of the current batch
    fetches,            \* history: fetch_image calls so far (bounded)
    files0,             \* history: files when the current fetch began
    hashes0,            \* history: downloaded_hashes when the fetch began
    hashes_loaded,      \* history: downloaded_hashes after __init__
    written,            \* history: contents written in this session
    saved_new,          \* history: contents saved by finished fetches, session
    recorded_new,       \* history: of those, the ones whose hash was persisted
    persisted_before,   \* history: the same, of earlier sessions
    saved_files         \* history: name -> content of every finished save

vars == <<files, downloaded_hashes, pc, session, load_status, caller, url,
          head_response, response, filepath, success, total, index, results,
          events, batch_log, fetches, files0, hashes0, hashes_loaded, written,
          saved_new, recorded_new, persisted_before, saved_files>>

NoFiles == [n \in {} |-> <<>>]
NoHeaders == [h \in {} |-> <<>>]
NoResponse == [content |-> <<>>, headers |-> NoHeaders]
NoResults == [successful |-> 0, failed |-> 0]

Exists(name) == name \in DOMAIN files

\* the directory with `name` holding `data`
WithFile(dir, name, data) ==
    [n \in DOMAIN dir \cup {name} |-> IF n = name THEN data ELSE dir[n]]

Happened(e) == \E k \in 1..Len(events) : events[k] = e

batch_vars == <<total, index, results, batch_log>>
session_vars == <<session, load_status, hashes_loaded, persisted_before>>
history_vars == <<fetches, files0, hashes0, written, saved_new, recorded_new,
                  saved_files>>

\* ------------------------------------------------------------ construction
\* _load_existing_hashes: the set read, or the empty set of __init__ when the
\* file is missing or cannot be read
_load_existing_hashes(dir, readable) ==
    IF HashFileName \in DOMAIN dir /\ readable
    THEN ReadHashLines(dir[HashFileName])
    ELSE {}

LoadStatus(dir, readable) ==
    IF HashFileName \notin DOMAIN dir THEN "missing"
    ELSE IF readable THEN "loaded" ELSE "failed"

\* first run of the program, in a directory mkdir has just created
Init ==
    /\ files = NoFiles
    /\ downloaded_hashes = _load_existing_hashes(NoFiles, TRUE)
    /\ pc = "menu"
    /\ session = 1
    /\ load_status = LoadStatus(NoFiles, TRUE)
    /\ caller = "none"
    /\ url = <<>>
    /\ head_response = NoHeaders
    /\ response = NoResponse
    /\ filepath = <<>>
    /\ success = FALSE
    /\ total = 0
    /\ index = 0
    /\ results = NoResults
    /\ events = <<>>
    /\ batch_log = <<>>
    /\ fetches = 0
    /\ files0 = NoFiles
    /\ hashes0 = {}
    /\ hashes_loaded = {}
    /\ written = {}
    /\ saved_new = {}
    /\ recorded_new = {}
    /\ persisted_before = {}
    /\ saved_files = NoFiles

\* ----------------------------------------------------------- fetch_image
\* entry of fetch_image(u): nothing but locals (and the history) changes
Enter(u, who) ==
    /\ url' = u
    /\ caller' = who
    /\ head_response' = NoHeaders
    /\ response' = NoResponse
    /\ filepath' = <<>>
    /\ success' = FALSE
    /\ events' = <<>>
    /\ files0' = files
    /\ hashes0' = downloaded_hashes
    /\ pc' = "head"

\* leaving fetch_image with `value`, after event e
Return(value, e) ==
    /\ success' = value
    /\ events' = Append(events, e)
    /\ pc' = "returned"

\* what fetch_image cannot reach: its caller's locals, the session, the history
caller_vars == <<total, index, results, batch_log, session, load_status,
                 hashes_loaded, persisted_before, fetches, files0, hashes0,
                 saved_new, recorded_new>>

\* session.head(url, timeout=10) and raise_for_status()
ProbeFails ==
    /\ pc = "head"
    /\ \E err \in RequestErrors : Return(FALSE, <<"HEAD", err>>)
    /\ UNCHANGED caller_vars
    /\ UNCHANGED <<files, downloaded_hashes, caller, url, head_response,
                   response, filepath, written, saved_files>>

ProbeAnswers ==
    /\ pc = "head"
    /\ \E headers \in HeadHeaders : head_response' = headers
    /\ events' = Append(events, <<"HEAD", "ok">>)
    /\ pc' = "validate"
    /\ UNCHANGED caller_vars
    /\ UNCHANGED <<files, downloaded_hashes, caller, url, response, filepath,
                   success, written, saved_files>>

Probe == ProbeFails \/ ProbeAnswers

\* is_valid, message = self._validate_image_headers(head_response)
Validate ==
    /\ pc = "validate"
    /\ IF _validate_image_headers(head_response)
       THEN /\ events' = Append(events, <<"validate", "ok">>)
            /\ pc' = "get"
            /\ UNCHANGED success
       ELSE Return(FALSE, <<"validate", "invalid">>)
    /\ UNCHANGED caller_vars
    /\ UNCHANGED <<files, downloaded_hashes, caller, url, head_response,
                   response, filepath, written, saved_files>>

\* session.get(url, timeout=30), raise_for_status(), response.content
DownloadFails ==
    /\ pc = "get"
    /\ \E err \in RequestErrors : Return(FALSE, <<"GET", err>>)
    /\ UNCHANGED caller_vars
    /\ UNCHANGED <<files, downloaded_hashes, caller, url, head_response,
                   response, filepath, written, saved_files>>

DownloadAnswers ==
    /\ pc = "get"
    /\ \E content \in Contents, headers \in GetHeaders :
           response' = [content |-> content, headers |-> headers]
    /\ events' = Append(events, <<"GET", "ok">>)
    /\ pc' = "dedup"
    /\ UNCHANGED caller_vars
    /\ UNCHANGED <<files, downloaded_hashes, caller, url, head_response,
                   filepath, success, written, saved_files>>

Download == DownloadFails \/ DownloadAnswers

\* file_hash = self._get_file_hash(content); the membership test
IsDuplicate(content, hashes) == _get_file_hash(content) \in hashes

CheckDuplicate ==
    /\ pc = "dedup"
    /\ IF IsDuplicate(response.content, downloaded_hashes)
       THEN Return(TRUE, <<"dedup", "duplicate">>)
       ELSE /\ events' = Append(events, <<"dedup", "new">>)
            /\ pc' = "save"
            /\ UNCHANGED success
    /\ UNCHANGED caller_vars
    /\ UNCHANGED <<files, downloaded_hashes, caller, url, head_response,
                   response, filepath, written, saved_files>>

\* the path fetch_image settles on
TargetPath(u, headers, timestamp, dir) ==
    LET content_type == HeaderGet(headers, "Content-Type", DefaultContentType)
        filename == _generate_filename(u, content_type, timestamp)
    IN ResolveConflicts(DOMAIN dir, filename, filename, 1)

\* Variant: the hash is recorded before the file is written
WriteFailsButRecords ==
    /\ pc = "save"
    /\ \E timestamp \in Timestamps :
           filepath' = TargetPath(url, response.headers, timestamp, files)
    /\ downloaded_hashes' =
           downloaded_hashes \cup {_get_file_hash(response.content)}
    /\ Return(FALSE, <<"write", "OSError">>)
    /\ UNCHANGED caller_vars
    /\ UNCHANGED <<files, caller, url, head_response, response, written,
                   saved_files>>

\* open(filepath, 'wb') raises OSError: nothing is written
WriteFails ==
    /\ pc = "save"
    /\ \E timestamp \in Timestamps :
           filepath' = TargetPath(url, response.headers, timestamp, files)
    /\ Return(FALSE, <<"write", "OSError">>)
    /\ UNCHANGED caller_vars
    /\ UNCHANGED <<files, downloaded_hashes, caller, url, head_response,
                   response, written, saved_files>>

\* with open(filepath, 'wb') as f: f.write(content)
WriteFile ==
    /\ pc = "save"
    /\ \E timestamp \in Timestamps :
           filepath' = TargetPath(url, response.headers, timestamp, files)
    /\ files' = WithFile(files, filepath', response.content)
    /\ written' = written \cup {response.content}
    /\ events' = Append(events, <<"write", "ok">>)
    /\ pc' = "record"
    /\ UNCHANGED caller_vars
    /\ UNCHANGED <<downloaded_hashes, caller, url, head_response, response,
                   success, saved_files>>

SaveImage == WriteFails \/ WriteFile

\* Variant: a failed hash write undoes the save
SaveHashFailsRollsBack ==
    /\ files' = files0
    /\ UNCHANGED downloaded_hashes
    /\ events' = Append(events, <<"record", "failed">>)

\* _save_hash when open(hash_file, 'a') or the write raises: the exception
\* is caught and reported, nothing changes
SaveHashFails ==
    /\ UNCHANGED <<files, downloaded_hashes>>
    /\ events' = Append(events, <<"record", "failed">>)

\* _save_hash: append the line, then add to the set
SaveHashDone ==
    LET file_hash == _get_file_hash(response.content)
        before == IF Exists(HashFileName) THEN files[HashFileName] ELSE <<>>
    IN /\ files' = WithFile(files, HashFileName,
                            AppendHashLine(before, file_hash))
       /\ downloaded_hashes' = downloaded_hashes \cup {file_hash}
       /\ events' = Append(events, <<"record", "ok">>)

_save_hash == SaveHashFails \/ SaveHashDone

\* self._save_hash(file_hash); ...; return True
RecordHash ==
    /\ pc = "record"
    /\ _save_hash
    /\ success' = TRUE
    /\ pc' = "returned"
    /\ saved_files' = WithFile(saved_files, filepath, response.content)
    /\ UNCHANGED caller_vars
    /\ UNCHANGED <<caller, url, head_response, response, filepath, written>>

fetch_image ==
    \/ Probe
    \/ Validate
    \/ Download
    \/ CheckDuplicate
    \/ SaveImage
    \/ RecordHash

\* what the history keeps of a fetch that has returned
SavedNew == Happened(<<"write", "ok">>) /\ success

NoteReturn ==
    /\ saved_new' = IF SavedNew THEN saved_new \cup {response.content}
                    ELSE saved_new
    /\ recorded_new' = IF SavedNew /\ Happened(<<"record", "ok">>)
                       THEN recorded_new \cup {response.content}
                       ELSE recorded_new
    /\ files0' = files
    /\ hashes0' = downloaded_hashes
    /\ events' = <<>>
    /\ url' = <<>>
    /\ head_response' = NoHeaders
    /\ response' = NoResponse
    /\ filepath' = <<>>
    /\ success' = FALSE

\* -------------------------------------------------- fetch_multiple_images
\* results = {...}; the for loop is entered
StartBatch(n) ==
    /\ total' = n
    /\ index' = 0
    /\ results' = NoResults
    /\ batch_log' = <<>>
    /\ pc' = "iterate"

\* for i, url in enumerate(urls, 1): success = self.fetch_image(url.strip())
\* (the elements of urls are independent inputs: each is drawn when the loop
\* reaches it)
NextUrl ==
    /\ pc = "iterate"
    /\ index < total
    /\ index' = index + 1
    /\ batch_log' = Append(batch_log, <<"fetch", index + 1>>)
    /\ \E u \in Urls : Enter(u, "batch")
    /\ UNCHANGED <<files, downloaded_hashes, session_vars, total, results,
                   fetches, written, saved_new, recorded_new, saved_files>>

\* Variant: only successes are counted
TalliedSuccessOnly(r, ok) ==
    IF ok THEN [r EXCEPT !.successful = @ + 1] ELSE r

\* results["successful"] += 1 or results["failed"] += 1
Tallied(r, ok) ==
    IF ok THEN [r EXCEPT !.successful = @ + 1]
    ELSE [r EXCEPT !.failed = @ + 1]

\* Variant: the pause test written <= instead of <
MorePendingInclusive(i, n) == i <= n

\* if i < len(urls)
MorePending(i, n) == i < n

\* the tally and the test `if i < len(urls)`
Tally ==
    /\ pc = "returned"
    /\ caller = "batch"
    /\ results' = Tallied(results, success)
    /\ pc' = IF MorePending(index, total) THEN "pause" ELSE "batch_done"
    /\ NoteReturn
    /\ UNCHANGED <<files, downloaded_hashes, session_vars, caller, total,
                   index, batch_log, fetches, written, saved_files>>

\* time.sleep(2)
Pause ==
    /\ pc = "pause"
    /\ batch_log' = Append(batch_log, <<"pause", PauseSeconds>>)
    /\ pc' = "iterate"
    /\ UNCHANGED <<files, downloaded_hashes, session_vars, caller, url,
                   head_response, response, filepath, success, total, index,
                   results, events, history_vars>>

\* return results; main prints the summary
BatchReturns ==
    /\ pc = "batch_done"
    /\ pc' = "menu"
    /\ caller' = "none"
    /\ total' = 0
    /\ index' = 0
    /\ results' = NoResults
    /\ batch_log' = <<>>
    /\ UNCHANGED <<files, downloaded_hashes, session_vars, url, head_response,
                   response, filepath, success, events, history_vars>>

fetch_multiple_images == NextUrl \/ Tally \/ Pause \/ BatchReturns

\* ------------------------------------------------------------------- main
\* choice '1': fetcher.fetch_image(url)
ChooseSingle ==
    /\ pc = "menu"
    /\ fetches < MaxFetches
    /\ fetches' = fetches + 1
    /\ \E u \in Urls : Enter(u, "single")
    /\ UNCHANGED <<files, downloaded_hashes, session_vars, batch_vars,
                   written, saved_new, recorded_new, saved_files>>

SingleReturns ==
    /\ pc = "returned"
    /\ caller = "single"
    /\ pc' = "menu"
    /\ caller' = "none"
    /\ NoteReturn
    /\ UNCHANGED <<files, downloaded_hashes, session_vars, batch_vars,
                   fetches, written, saved_files>>

\* choice '2': fetcher.fetch_multiple_images(urls), urls not empty
ChooseBatch ==
    /\ pc = "menu"
    /\ \E n \in 1..MaxBatch :
           /\ fetches + n <= MaxFetches
           /\ fetches' = fetches + n
           /\ StartBatch(n)
    /\ caller' = "batch"
    /\ UNCHANGED <<files, downloaded_hashes, session_vars, url, head_response,
                   response, filepath, success, events, files0, hashes0,
                   written, saved_new, recorded_new, saved_files>>

\* choice '3'
Exit ==
    /\ pc = "menu"
    /\ pc' = "exited"
    /\ UNCHANGED <<files, downloaded_hashes, session_vars, caller, url,
                   head_response, response, filepath, success, batch_vars,
                   events, history_vars>>

\* the program is started again on the same directory: __init__
Construct ==
    /\ pc = "exited"
    /\ session < MaxSessions
    /\ session' = session + 1
    /\ \E readable \in BOOLEAN :
           /\ downloaded_hashes' = _load_existing_hashes(files, readable)
           /\ load_status' = LoadStatus(files, readable)
    /\ hashes_loaded' = downloaded_hashes'
    /\ hashes0' = downloaded_hashes'
    /\ persisted_before' = persisted_before \cup recorded_new
    /\ saved_new' = {}
    /\ recorded_new' = {}
    /\ written' = {}
    /\ pc' = "menu"
    /\ UNCHANGED <<files, caller, url, head_response, response, filepath,
                   success, batch_vars, events, fetches, files0, saved_files>>

main == ChooseSingle \/ SingleReturns \/ ChooseBatch \/ Exit \/ Construct

Next == fetch_image \/ fetch_multiple_images \/ main

Spec == Init /\ [][Next]_vars

\* ------------------------------------------- header validation, case by case
\* Declared content types and content lengths a server can answer.  `present`
\* says whether the header is sent at all; `size` says how the length text
\* relates to the 50 MB ceiling: "none" (not sent or empty), "unparseable",
\* "within" (at most 50 * 1,048,576) or "over".
TypeCases ==
    { [present |-> TRUE, text |-> TypePng],
      [present |-> TRUE, text |-> TypePngUpper],
      [present |-> TRUE, text |-> <<"Image", "/", "png">>],
      [present |-> TRUE, text |-> TypeHtml],
      [present |-> TRUE, text |-> <<"image">>],
      [present |-> TRUE, text |-> <<"image", "s", "/", "png">>],
      [present |-> TRUE, text |-> <<"image", "/", "png", ";", " ", "q">>],
      [present |-> FALSE, text |-> <<>>] }

LengthCases ==
    { [present |-> FALSE, text |-> <<>>, size |-> "none"],
      [present |-> TRUE, text |-> <<>>, size |-> "none"],
      [present |-> TRUE, text |-> <<"a", "b", "c">>, size |-> "unparseable"],
      [present |-> TRUE, text |-> <<"1", "2", ".", "5">>,
       size |-> "unparseable"],
      [present |-> TRUE, text |-> <<"0">>, size |-> "within"],
      [present |-> TRUE, text |-> <<"-", "1">>, size |-> "within"],
      [present |-> TRUE, text |-> <<"5", "1", "3", "8", "0", "2", "2", "4">>,
       size |-> "within"],
      [present |-> TRUE, text |-> <<"5", "2", "4", "2", "8", "8", "0", "0">>,
       size |-> "within"],
      [present |-> TRUE, text |-> <<"5", "2", "4", "2", "8", "8", "0", "1">>,
       size |-> "over"],
      [present |-> TRUE, text |-> Text51MB, size |-> "over"] }

HeadersOf(t, l) ==
    [h \in (IF t.present THEN {"Content-Type"} ELSE {})
           \cup (IF l.present THEN {"Content-Length"} ELSE {}) |->
        IF h = "Content-Type" THEN t.text ELSE l.text]

\* The state in which fetch_image holds the answer of a probe, for every
\* combination of the cases above.
InitHeaders ==
    /\ \E t \in TypeCases, l \in LengthCases : head_response = HeadersOf(t, l)
    /\ files = NoFiles
    /\ downloaded_hashes = {}
    /\ pc = "validate"
    /\ session = 1
    /\ load_status = "missing"
    /\ caller = "single"
    /\ url = UrlPhoto
    /\ response = NoResponse
    /\ filepath = <<>>
    /\ success = FALSE
    /\ total = 0
    /\ index = 0
    /\ results = NoResults
    /\ events = << <<"HEAD", "ok">> >>
    /\ batch_log = <<>>
    /\ fetches = 1
    /\ files0 = NoFiles
    /\ hashes0 = {}
    /\ hashes_loaded = {}
    /\ written = {}
    /\ saved_new = {}
    /\ recorded_new = {}
    /\ persisted_before = {}
    /\ saved_files = NoFiles

SpecHeaders == InitHeaders /\ [][Validate]_vars

\* ---------------------------------------------------------------- claims
Downloaded == Happened(<<"GET", "ok">>)
ProbeFailed == \E err \in RequestErrors : Happened(<<"HEAD", err>>)
GetIssued == \E k \in 1..Len(events) : events[k][1] = "GET"
DeclaredType == HeaderGet(head_response, "Content-Type", <<>>)
DeclaredSize ==
    IF "Content-Length" \notin DOMAIN head_response
    THEN "none"
    ELSE (CHOOSE l \in LengthCases :
              l.present /\ l.text = head_response["Content-Length"]).size

\* C1: within one session, once a fetch has saved content C as a new file and
\* returned True, every later fetch that downloads C returns True as a
\* duplicate and leaves the directory and the hash store unchanged, whatever
\* happened when the first fetch persisted the hash.
C1_SameSessionDuplicate ==
    (Downloaded /\ pc # "dedup" /\ response.content \in saved_new)
        => /\ pc = "returned"
           /\ success
           /\ Happened(<<"dedup", "duplicate">>)
           /\ files = files0
           /\ downloaded_hashes = hashes0

\* C2: a save never touches an existing entry: the path written to did not
\* exist before the fetch, and every file saved by a finished fetch still
\* holds exactly the content that was downloaded for it.
C2_SavedFilesKeepContent ==
    /\ pc = "record" => filepath \notin DOMAIN files0
    /\ \A n \in DOMAIN saved_files :
           n \in DOMAIN files /\ files[n] = saved_files[n]

\* C3: a batch runs fetch_image once per URL, in order, whatever the earlier
\* outcomes; successful + failed is the number of URLs processed so far, and
\* when the batch returns successful + failed = total = n.
IsFetchEntry(e) == e[1] = "fetch"

C3_BatchCountsEveryUrl ==
    caller = "batch" =>
        /\ index <= total
        /\ SelectSeq(batch_log, IsFetchEntry)
               = [k \in 1..index |-> <<"fetch", k>>]
        /\ results.successful + results.failed
               = IF pc \in {"iterate", "pause", "batch_done"}
                 THEN index ELSE index - 1
        /\ pc = "batch_done" =>
               /\ index = total
               /\ results.successful + results.failed = total

C3_Witness ==
    /\ pc = "batch_done"
    /\ total = MaxBatch
    /\ results.successful >= 1
    /\ results.failed >= 1

\* C4 (as claimed): the headers are valid iff the declared content type
\* starts with image/ and the declared length is absent, unparseable or at
\* most 50 * 1,048,576.
C4_ValidIffImageAndSize ==
    pc # "validate" =>
        (Happened(<<"validate", "ok">>)
            <=> /\ StartsWith(DeclaredType, ImagePrefix)
                /\ DeclaredSize # "over")

\* C4 (amended): the headers are valid iff the declared content type,
\* lowercased, starts with image/ and the declared length is absent,
\* unparseable or at most 50 * 1,048,576.
C4_ValidIffLoweredImageAndSize ==
    pc # "validate" =>
        (Happened(<<"validate", "ok">>)
            <=> /\ StartsWith(Lower(DeclaredType), ImagePrefix)
                /\ DeclaredSize # "over")

C4_Witness ==
    /\ pc = "get"
    /\ DeclaredType = TypePngUpper
    /\ DeclaredSize = "unparseable"

\* C5: when persisting the hash fails after the image was written, the fetch
\* still returns True and the image file is in the directory with the
\* downloaded content.
C5_FailedRecordKeepsFile ==
    (pc = "returned" /\ Happened(<<"record", "failed">>))
        => /\ success
           /\ filepath \in DOMAIN files
           /\ files[filepath] = response.content

C5_Witness ==
    /\ pc = "returned"
    /\ Happened(<<"write", "ok">>)
    /\ Happened(<<"record", "failed">>)
    /\ success

\* C6: in a session whose startup load succeeded or found no list file, after
\* every _save_hash whose write succeeded the in-memory set equals the set of
\* hashes held in the list file, and the recorded hash is in both.
C6_StoreConverges ==
    (/\ load_status \in {"missing", "loaded"}
     /\ pc = "returned"
     /\ Happened(<<"record", "ok">>))
        => /\ Exists(HashFileName)
           /\ downloaded_hashes = ReadHashLines(files[HashFileName])
           /\ _get_file_hash(response.content) \in downloaded_hashes

\* C7: a hash persisted in an earlier session is loaded by a later session
\* that can read the list file, and a fetch downloading that content then
\* returns True as a duplicate without creating a file; a missing list file
\* gives an empty set.
C7_DedupSurvivesRestart ==
    /\ load_status = "missing" => hashes_loaded = {}
    /\ load_status = "loaded" =>
           \A c \in persisted_before : _get_file_hash(c) \in hashes_loaded
    /\ (/\ pc = "returned"
        /\ Downloaded
        /\ load_status = "loaded"
        /\ response.content \in persisted_before)
           => /\ success
              /\ Happened(<<"dedup", "duplicate">>)
              /\ files = files0

\* C8: in a batch of n URLs the log is fetch 1, pause, fetch 2, pause, ...,
\* fetch n: a pause only between consecutive fetches, n - 1 pauses in all,
\* none before the first fetch or after the last.
C8_PausesOnlyBetween ==
    caller = "batch" =>
        /\ \A k \in 1..Len(batch_log) :
               batch_log[k] = IF k % 2 = 1
                              THEN <<"fetch", (k + 1) \div 2>>
                              ELSE <<"pause", PauseSeconds>>
        /\ Len(batch_log) <= 2 * total - 1
        /\ pc = "batch_done" => Len(batch_log) = 2 * total - 1

C8_Witness ==
    /\ pc = "batch_done"
    /\ total = MaxBatch
    /\ Len(batch_log) = 2 * MaxBatch - 1

\* C9 (as claimed): GET is issued only after HEAD succeeded and validation
\* passed; a failed probe or validation means no GET, no write, an unchanged
\* hash store and False; every file written follows a probe whose declared
\* content type starts with image/.
C9_GetOnlyAfterValidProbe ==
    /\ GetIssued =>
           /\ events[1] = <<"HEAD", "ok">>
           /\ events[2] = <<"validate", "ok">>
    /\ (pc = "returned" /\ (ProbeFailed \/ Happened(<<"validate", "invalid">>)))
           => /\ ~GetIssued
              /\ files = files0
              /\ downloaded_hashes = hashes0
              /\ ~success
    /\ Happened(<<"write", "ok">>) => StartsWith(DeclaredType, ImagePrefix)

\* C9 (amended): the same, the content type of the probe starting with
\* image/ once lowercased.
C9_GetOnlyAfterLoweredValidProbe ==
    /\ GetIssued =>
           /\ events[1] = <<"HEAD", "ok">>
           /\ events[2] = <<"validate", "ok">>
    /\ (pc = "returned" /\ (ProbeFailed \/ Happened(<<"validate", "invalid">>)))
           => /\ ~GetIssued
              /\ files = files0
              /\ downloaded_hashes = hashes0
              /\ ~success
    /\ Happened(<<"write", "ok">>)
           => StartsWith(Lower(DeclaredType), ImagePrefix)

C9_Witness ==
    /\ pc = "record"
    /\ DeclaredType = TypePngUpper
    /\ Exists(filepath)

\* C10: the hash is recorded only after the file was written: a failed write
\* returns False with the hash in neither the set nor the list file, so the
\* content is still not a duplicate; every hash added during a session is the
\* hash of a file written in that session.
C10_HashOnlyAfterWrite ==
    /\ (pc = "returned" /\ Happened(<<"write", "OSError">>))
           => /\ ~success
              /\ downloaded_hashes = hashes0
              /\ files = files0
              /\ ~IsDuplicate(response.content, downloaded_hashes)
    /\ downloaded_hashes # hashes0 =>
           /\ Happened(<<"write", "ok">>)
           /\ Exists(filepath)
           /\ downloaded_hashes = hashes0 \cup {_get_file_hash(response.content)}
    /\ \A h \in downloaded_hashes \ hashes_loaded :
           \E c \in written : h = _get_file_hash(c)

C10_Witness ==
    /\ pc = "returned"
    /\ Happened(<<"write", "OSError">>)
    /\ downloaded_hashes # hashes_loaded

====
